---- MODULE Spec2Model ----
(***************************************************************************)
(* Model of evennia/commands/default/help.py: the `help` command (CmdHelp) *)
(* and the help database editor `@sethelp` (CmdSetHelp).                   *)
(*                                                                         *)
(* Python strings are sequences of one-character strings, so that split,   *)
(* lower, strip, startswith and concatenation are computed and not         *)
(* assumed.  The help database (HelpEntry.objects) is a set of records.    *)
(***************************************************************************)
EXTENDS Integers, Sequences, FiniteSets, TLC

VARIABLES db, prevdb, call, old, msg

vars == <<db, prevdb, call, old, msg>>

\* ------------------------------------------------------------------ bounds
\* longest help text kept in the database (texts only grow by appending)
MaxText == 3

\* ------------------------------------------------------- string primitives
ToLower(c) ==
  CASE c = "A" -> "a"
    [] c = "B" -> "b"
    [] c = "G" -> "g"
    [] OTHER -> c

ToUpper(c) ==
  CASE c = "a" -> "A"
    [] c = "b" -> "B"
    [] c = "g" -> "G"
    [] OTHER -> c

Lower(s) == [i \in 1..Len(s) |-> ToLower(s[i])]

IsSpace(c) == c \in {" ", "\n"}

RECURSIVE LStrip(_)
LStrip(s) == IF s # <<>> /\ IsSpace(Head(s)) THEN LStrip(Tail(s)) ELSE s

RECURSIVE RStrip(_)
RStrip(s) ==
  IF s # <<>> /\ IsSpace(s[Len(s)]) THEN RStrip(SubSeq(s, 1, Len(s) - 1)) ELSE s

Strip(s) == RStrip(LStrip(s))

\* str.title(): first letter of every word upper case, the others lower case
Title(s) ==
  [i \in 1..Len(s) |->
     IF i = 1 \/ IsSpace(s[i - 1]) THEN ToUpper(s[i]) ELSE ToLower(s[i])]

\* str.split(sep) for a one-character separator
RECURSIVE SplitAcc(_, _, _)
SplitAcc(s, sep, cur) ==
  IF s = <<>> THEN <<cur>>
  ELSE IF Head(s) = sep THEN <<cur>> \o SplitAcc(Tail(s), sep, <<>>)
  ELSE SplitAcc(Tail(s), sep, Append(cur, Head(s)))

Split(s, sep) == SplitAcc(s, sep, <<>>)

\* sep.join(list)
RECURSIVE Join(_, _)
Join(list, sep) ==
  IF list = <<>> THEN <<>>
  ELSE IF Len(list) = 1 THEN list[1]
  ELSE list[1] \o sep \o Join(Tail(list), sep)

StartsWith(s, q) == Len(q) <= Len(s) /\ SubSeq(s, 1, Len(q)) = q

Contains(s, q) ==
  \E i \in 1..(Len(s) - Len(q) + 1) : SubSeq(s, i, i + Len(q) - 1) = q

Range(f) == {f[i] : i \in DOMAIN f}

\* ---------------------------------------------------------- string values
GENERAL == <<"G", "e", "n", "e", "r", "a", "l">>
VIEW_ALL == <<"v", "i", "e", "w", ":", "a", "l", "l", "(", ")">>
VIEW_PERM == <<"v", "i", "e", "w", ":", "p", "e", "r", "m", "(", "A", ",", "B", ")">>

\* ------------------------------------------------- evennia.help (database)
\* HelpEntryManager.find_topicmatch: key (case-insensitive), then alias, and
\* when not exact a key that starts with, then one that contains, the query.
\* Topic strings of the model hold no '#', so the dbref lookup never applies.
FindTopicMatch(topicstr, exact, entries) ==
  LET q == Lower(topicstr)
      byKey == {e \in entries : Lower(e.key) = q}
      byAlias == {e \in entries : q \in e.aliases}
      byStart == {e \in entries : StartsWith(Lower(e.key), q)}
      byPart == {e \in entries : Contains(Lower(e.key), q)}
  IN IF byKey # {} THEN byKey
     ELSE IF byAlias # {} \/ exact THEN byAlias
     ELSE IF byStart # {} THEN byStart
     ELSE byPart

\* AliasHandler.add: every alias is stored stripped and lower-cased
AliasesAdd(stored, aliases) ==
  stored \cup {Lower(Strip(a)) : a \in (Range(aliases) \ {<<>>})}

\* evennia.utils.create.create_help_entry
CreateHelpEntry(key, entrytext, category, locks, aliases) ==
  [key |-> key, entrytext |-> entrytext, help_category |-> category,
   locks |-> locks, aliases |-> AliasesAdd({}, aliases)]

\* a changed entry written back: assigning to entrytext, key or help_category
\* of a HelpEntry saves the field (the idmapper's field wrappers), as save()
\* does for the whole entry
SaveEntry(entries, e, changed) == (entries \ {e}) \cup {changed}

\* topic.access(caller, 'view', default=True) for a caller without special
\* permissions
Access(entry) ==
  IF entry.locks = VIEW_ALL THEN TRUE
  ELSE IF entry.locks = VIEW_PERM THEN FALSE
  ELSE TRUE

\* --------------------------------------------------- CmdSetHelp.func parts
\* MuxCommand: self.args is the raw argument string, of which lhslist and
\* rhs are the parsed parts
Args(lhslist, hasrhs, rhs) ==
  Join(lhslist, <<",">>) \o (IF hasrhs THEN <<"=">> \o rhs ELSE <<>>)

TopicStrList(topicstr) == Split(topicstr, ";")

TopicAliases(topicstr) ==
  IF Len(topicstr) > 1 THEN Tail(TopicStrList(topicstr)) ELSE <<>>

\* the loop over topicstrlist: the matches of the first query string that
\* matches anything; old_entry is list(...)[0] of an unordered query set, so
\* any of them
RECURSIVE OldEntryMatches(_, _)
OldEntryMatches(topicstrlist, entries) ==
  IF topicstrlist = <<>> THEN {}
  ELSE LET m == FindTopicMatch(Head(topicstrlist), FALSE, entries)
       IN IF m # {} THEN m ELSE OldEntryMatches(Tail(topicstrlist), entries)

\* old_entry as a set: empty (falsy) or holding the entry
OldEntryChoices(topicstrlist, entries) ==
  LET m == OldEntryMatches(topicstrlist, entries)
  IN IF m = {} THEN {{}} ELSE {{e} : e \in m}

\* the category without the final lower()
Category_NoLower(lhslist, old_entry) ==
  LET e == CHOOSE x \in old_entry : TRUE
  IN IF Len(lhslist) > 1 THEN lhslist[2]
     ELSE IF old_entry # {} THEN e.help_category
     ELSE GENERAL

Category(lhslist, old_entry) ==
  LET e == CHOOSE x \in old_entry : TRUE
  IN Lower(IF Len(lhslist) > 1 THEN lhslist[2]
           ELSE IF old_entry # {} THEN e.help_category
           ELSE GENERAL)

LockString(lhslist, old_entry) ==
  LET e == CHOOSE x \in old_entry : TRUE
  IN IF Len(lhslist) > 2 THEN Join(SubSeq(lhslist, 3, Len(lhslist)), <<",">>)
     ELSE IF old_entry # {} THEN e.locks
     ELSE VIEW_ALL

\* appending without any separator
AppendText_NoSeparator(entrytext, rhs, switches) == entrytext \o rhs

AppendText(entrytext, rhs, switches) ==
  IF "merge" \in switches THEN entrytext \o <<" ">> \o rhs
  ELSE entrytext \o <<"\n">> \o rhs

IsAppend(switches) ==
  "append" \in switches \/ "merge" \in switches \/ "extend" \in switches

IsDelete(switches) == "delete" \in switches \/ "del" \in switches

\* overwriting without asking for the switch
IsReplace_Always(switches) == TRUE

IsReplace(switches) == "replace" \in switches

\* a delete that is never written to the database
DeleteEntry_Unsaved(entries, e) == entries

\* old_entry.delete()
DeleteEntry(entries, e) == entries \ {e}

Message(fmt, title, text) ==
  [fmt |-> fmt, title |-> title, text |-> text, aliases |-> {},
   cmds |-> {}, topics |-> {}]

NoMsg == Message("", <<>>, <<>>)

\* CmdSetHelp.func: the database and the message it leaves
SetHelp(switches, lhslist, hasrhs, rhs, old_entry, entries) ==
  LET nlist == Len(lhslist)
      topicstr0 == IF nlist > 0 THEN lhslist[1] ELSE <<>>
      topicstr == TopicStrList(topicstr0)[1]
      aliases == TopicAliases(topicstr0)
      category == Category(lhslist, old_entry)
      lockstring == LockString(lhslist, old_entry)
      e == CHOOSE x \in old_entry : TRUE
      norhs == ~hasrhs \/ rhs = <<>>
  IN
  IF Args(lhslist, hasrhs, rhs) = <<>> THEN
    [db |-> entries, msg |-> Message("Usage", <<>>, <<>>)]
  ELSE IF topicstr0 = <<>> THEN
    [db |-> entries, msg |-> Message("You have to define a topic!", <<>>, <<>>)]
  ELSE IF IsAppend(switches) THEN
    IF old_entry = {} THEN
      [db |-> entries,
       msg |-> Message("Could not find topic. You must give an exact name.",
                       topicstr, <<>>)]
    ELSE IF norhs THEN
      [db |-> entries,
       msg |-> Message("You must supply text to append/merge.", <<>>, <<>>)]
    ELSE
      LET text == AppendText(e.entrytext, rhs, switches)
      IN [db |-> SaveEntry(entries, e,
                           [e EXCEPT !.entrytext = text,
                                     !.aliases = AliasesAdd(e.aliases, aliases)]),
          msg |-> Message("Entry updated", topicstr, text)]
  ELSE IF IsDelete(switches) THEN
    IF old_entry = {} THEN
      [db |-> entries, msg |-> Message("Could not find topic", topicstr, <<>>)]
    ELSE
      [db |-> DeleteEntry(entries, e),
       msg |-> Message("Deleted help entry", topicstr, <<>>)]
  ELSE IF norhs THEN
    [db |-> entries,
     msg |-> Message("You must supply a help text to add.", <<>>, <<>>)]
  ELSE IF old_entry # {} THEN
    IF IsReplace(switches) THEN
      [db |-> SaveEntry(entries, e,
                        [key |-> topicstr, entrytext |-> rhs,
                         help_category |-> category, locks |-> lockstring,
                         aliases |-> AliasesAdd(e.aliases, aliases)]),
       msg |-> Message("Overwrote the old topic", topicstr, <<>>)]
    ELSE
      [db |-> entries, msg |-> Message("Topic already exists", topicstr, <<>>)]
  ELSE
    [db |-> entries \cup
            {CreateHelpEntry(topicstr, rhs, category, lockstring, aliases)},
     msg |-> Message("Topic was successfully created", topicstr, <<>>)]

\* ------------------------------------------------------- CmdHelp.func parts
\* CmdHelp.parse
Parse(args) == Lower(Strip(args))

\* CmdSet.make_unique: of the commands sharing a key the first one is kept
RECURSIVE MakeUniqueAcc(_, _)
MakeUniqueAcc(cmds, seen) ==
  IF cmds = <<>> THEN <<>>
  ELSE IF Head(cmds).key \in seen THEN MakeUniqueAcc(Tail(cmds), seen)
  ELSE <<Head(cmds)>> \o MakeUniqueAcc(Tail(cmds), seen \cup {Head(cmds).key})

MakeUnique(cmdset) == MakeUniqueAcc(cmdset, {})

\* Command.__eq__ against a string: the key or one of the aliases, lower case
CmdEq(cmd, query) == query \in {Lower(n) : n \in {cmd.key} \cup Range(cmd.aliases)}

\* every command the caller may use, documented or not
AllCmds_NoAutoHelp(cmdset) == {cmd \in Range(MakeUnique(cmdset)) : cmd.access}

AllCmds(cmdset) == {cmd \in Range(MakeUnique(cmdset)) : cmd.auto_help /\ cmd.access}

AllTopics(entries) == {topic \in entries : Access(topic)}

AllCategories(all_cmds, all_topics) ==
  {Lower(cmd.help_category) : cmd \in all_cmds}
    \cup {Lower(topic.help_category) : topic \in all_topics}

\* format_help_list: a section per source, shown when some category of it has
\* an entry; in it every category, title-cased, with its keys (the order and
\* the line filling are layout and are not modelled)
FormatHelpList(hdict_cmds, hdict_db) ==
  LET section(h) ==
        IF DOMAIN h # {} /\ (\E c \in DOMAIN h : h[c] # {})
        THEN {<<Title(c), h[c]>> : c \in DOMAIN h}
        ELSE {}
  IN [fmt |-> "list", title |-> <<>>, text |-> <<>>, aliases |-> {},
      cmds |-> section(hdict_cmds), topics |-> section(hdict_db)]

\* format_help_entry (the suggestions only decorate the entry and are left out)
FormatHelpEntry(title, help_text, aliases) ==
  [fmt |-> "entry", title |-> title, text |-> RStrip(help_text),
   aliases |-> aliases, cmds |-> {}, topics |-> {}]

\* the listing of every entry, grouped by category
HelpAll(all_cmds, all_topics) ==
  FormatHelpList(
    [c \in {cmd.help_category : cmd \in all_cmds} |->
       {cmd.key : cmd \in {x \in all_cmds : x.help_category = c}}],
    [c \in {topic.help_category : topic \in all_topics} |->
       {topic.key : topic \in {x \in all_topics : x.help_category = c}}])

HelpCategory(query, all_cmds, all_topics) ==
  FormatHelpList(
    [c \in {query} |-> {cmd.key : cmd \in {x \in all_cmds : x.help_category = c}}],
    [c \in {query} |->
       {topic.key : topic \in {x \in all_topics : x.help_category = c}}])

NotFound(query) == <<"No help entry found for '">> \o query \o <<"'">>

\* the lookup with the database topic tried before the command
HelpLookup_TopicFirst(query, all_cmds, all_topics, entries) ==
  LET cmdmatch == {cmd \in all_cmds : CmdEq(cmd, query)}
      dbmatch == FindTopicMatch(query, TRUE, entries)
  IN IF Cardinality(dbmatch) = 1 THEN
       LET m == CHOOSE topic \in dbmatch : TRUE
       IN FormatHelpEntry(m.key, m.entrytext, m.aliases)
     ELSE IF Cardinality(cmdmatch) = 1 THEN
       LET m == CHOOSE cmd \in cmdmatch : TRUE
       IN FormatHelpEntry(m.key, m.doc, Range(m.aliases))
     ELSE IF query \in AllCategories(all_cmds, all_topics) THEN
       HelpCategory(query, all_cmds, all_topics)
     ELSE FormatHelpEntry(<<>>, NotFound(query), {})

\* the lookup of one entry: command, then database topic, then category
HelpLookup(query, all_cmds, all_topics, entries) ==
  LET cmdmatch == {cmd \in all_cmds : CmdEq(cmd, query)}
      dbmatch == FindTopicMatch(query, TRUE, entries)
  IN IF Cardinality(cmdmatch) = 1 THEN
       LET m == CHOOSE cmd \in cmdmatch : TRUE
       IN FormatHelpEntry(m.key, m.doc, Range(m.aliases))
     ELSE IF Cardinality(dbmatch) = 1 THEN
       LET m == CHOOSE topic \in dbmatch : TRUE
       IN FormatHelpEntry(m.key, m.entrytext, m.aliases)
     ELSE IF query \in AllCategories(all_cmds, all_topics) THEN
       HelpCategory(query, all_cmds, all_topics)
     ELSE FormatHelpEntry(<<>>, NotFound(query), {})

\* CmdHelp.func: the message it sends
Help(args, cmdset, entries) ==
  LET query == IF args = <<>> THEN <<"a", "l", "l">> ELSE args
      all_cmds == AllCmds(cmdset)
      all_topics == AllTopics(entries)
  IN IF query \in {<<"l", "i", "s", "t">>, <<"a", "l", "l">>}
     THEN HelpAll(all_cmds, all_topics)
     ELSE HelpLookup(query, all_cmds, all_topics, entries)

\* ------------------------------------------------------------- the inputs
SwitchSets ==
  {{}, {"replace"}, {"append"}, {"merge"}, {"extend"}, {"delete"}, {"del"},
   {"append", "merge"}, {"append", "delete"}, {"replace", "delete"}}

Topics == {<<>>, <<"A">>, <<";", "B">>, <<";">>, <<"A", ";", "B">>}

LhsTails ==
  {<<>>, <<<<"A">>>>,
   <<<<"A">>, SubSeq(VIEW_PERM, 1, 11), SubSeq(VIEW_PERM, 13, 14)>>}

Texts == {<<>>, <<"x">>}

Cmd(key, aliases, category, auto_help, access, doc) ==
  [key |-> key, aliases |-> aliases, help_category |-> category,
   auto_help |-> auto_help, access |-> access, doc |-> doc]

LGENERAL == Lower(GENERAL)

CmdSets ==
  {<<Cmd(<<"a">>, <<>>, LGENERAL, TRUE, TRUE, <<"d", "\n">>),
     Cmd(<<"a">>, <<>>, <<"a">>, FALSE, TRUE, <<"e">>),
     Cmd(<<"c">>, <<<<"b">>>>, <<"a">>, TRUE, TRUE, <<"f">>),
     Cmd(<<"d">>, <<>>, LGENERAL, FALSE, TRUE, <<"g">>),
     Cmd(<<"e">>, <<>>, <<"e">>, TRUE, FALSE, <<"h">>)>>,
   <<Cmd(<<"c">>, <<<<"b">>>>, <<"a">>, TRUE, TRUE, <<"f">>),
     Cmd(<<"f">>, <<<<"b">>>>, <<"a">>, TRUE, TRUE, <<"i">>)>>,
   <<>>}

Queries ==
  {<<>>, <<"l", "i", "s", "t">>, <<" ", "A", "l", "l">>, <<"a">>, <<"B">>,
   <<"c">>, LGENERAL, <<"z">>}

NoCall ==
  [cmd |-> "none", switches |-> {}, lhslist |-> <<>>, hasrhs |-> FALSE,
   rhs |-> <<>>, args |-> <<>>, cmdset |-> <<>>]

\* ------------------------------------------------------------ the machine
\* db: HelpEntry.objects; call: the command being run and its input ("none"
\* at the prompt); prevdb: the database when it started; old: its old_entry;
\* msg: the message it sent
Init ==
  /\ db = {}
  /\ prevdb = {}
  /\ call = NoCall
  /\ old = {}
  /\ msg = NoMsg

CmdSetHelp_func ==
  /\ call.cmd = "none"
  /\ \E switches \in SwitchSets, t \in Topics, tail \in LhsTails,
        hasrhs \in BOOLEAN, rhs \in Texts :
       LET lhslist == <<t>> \o tail
           topicstrlist == TopicStrList(t)
       IN /\ hasrhs \/ rhs = <<>>
          /\ \E old_entry \in (IF Args(lhslist, hasrhs, rhs) = <<>> \/ t = <<>>
                              THEN {{}}
                              ELSE OldEntryChoices(topicstrlist, db)) :
               LET r == SetHelp(switches, lhslist, hasrhs, rhs, old_entry, db)
               IN /\ \A x \in r.db : Len(x.entrytext) <= MaxText
                  /\ db' = r.db
                  /\ msg' = r.msg
                  /\ old' = old_entry
          /\ call' = [NoCall EXCEPT !.cmd = "sethelp", !.switches = switches,
                                    !.lhslist = lhslist, !.hasrhs = hasrhs,
                                    !.rhs = rhs]
  /\ prevdb' = db

CmdHelp_func ==
  /\ call.cmd = "none"
  /\ \E args \in Queries, cmdset \in CmdSets :
       /\ msg' = Help(Parse(args), cmdset, db)
       /\ call' = [NoCall EXCEPT !.cmd = "help", !.args = args,
                                 !.cmdset = cmdset]
  /\ prevdb' = db
  /\ UNCHANGED <<db, old>>

\* the command has returned; the next one is awaited
Prompt ==
  /\ call.cmd # "none"
  /\ call' = NoCall
  /\ prevdb' = db
  /\ old' = {}
  /\ msg' = NoMsg
  /\ UNCHANGED db

Next == CmdSetHelp_func \/ CmdHelp_func \/ Prompt

Spec == Init /\ [][Next]_vars

TypeOK == \A e \in db : Len(e.entrytext) <= MaxText

\* keys are unique up to case (create_help_entry is never given a used key)
UniqueKeys == \A e1, e2 \in db : Lower(e1.key) = Lower(e2.key) => e1 = e2

\* ----------------------------------------------------------------- claims
\* the @sethelp call that has just run, as the claims speak of it
Ran == call.cmd = "sethelp"
Sw == call.switches
NList == Len(call.lhslist)
TopicGiven == Ran /\ call.lhslist[1] # <<>>
\* the topic name: the left-hand side before the first ',' and ';'
TopicName == Split(call.lhslist[1], ";")[1]
HasText == call.hasrhs /\ call.rhs # <<>>
Matched == old # {}
OldE == CHOOSE e \in old : TRUE
NoAppendSwitch == Sw \cap {"append", "merge", "extend"} = {}
NoDeleteSwitch == Sw \cap {"delete", "del"} = {}
\* nothing but the matched entry differs, and it has become e
OnlyOldBecame(e) == e \in db /\ db \ {e} = prevdb \ old
ErrorFmts ==
  {"Usage", "You have to define a topic!",
   "Could not find topic. You must give an exact name.",
   "You must supply text to append/merge."}

\* C1 (as claimed): @sethelp/extend on an existing topic with text T and
\* non-empty new text R leaves the topic with the text T followed at once by
\* R, no newline between them.
C1_ExtendAddsNoNewline ==
  (TopicGiven /\ Sw = {"extend"} /\ Matched /\ HasText)
    => \E e \in db : /\ OnlyOldBecame(e)
                     /\ e.entrytext = OldE.entrytext \o call.rhs

\* C2: @sethelp/append (not also a merge) on an existing topic with text T
\* and non-empty new text R makes that topic's text T, a newline, R, and no
\* other entry is created, deleted or changed; when no topic matches or R is
\* empty the database is unchanged and an error message is sent.
C2_AppendAddsNewline ==
  (Ran /\ "append" \in Sw /\ "merge" \notin Sw)
    => IF TopicGiven /\ Matched /\ HasText
       THEN \E e \in db :
              /\ OnlyOldBecame(e)
              /\ e.entrytext = OldE.entrytext \o <<"\n">> \o call.rhs
              /\ e.key = OldE.key
              /\ e.help_category = OldE.help_category
              /\ e.locks = OldE.locks
              /\ Cardinality(db) = Cardinality(prevdb)
       ELSE db = prevdb /\ msg.fmt \in ErrorFmts

C2_Witness ==
  /\ TopicGiven /\ Sw = {"append"} /\ Matched /\ HasText
  /\ Cardinality(prevdb) = 2
  /\ msg.fmt = "Entry updated"
  /\ msg.text = <<"x", "\n", "x">>

\* the entry a create or a /replace has just written
Written(e) == e \in db /\ e.key = TopicName /\ e.entrytext = call.rhs
WroteEntry ==
  Ran /\ msg.fmt \in {"Topic was successfully created", "Overwrote the old topic"}

C4_OverwriteOnlyWithReplace ==
  (TopicGiven /\ Matched /\ HasText /\ NoAppendSwitch /\ NoDeleteSwitch)
    => IF "replace" \in Sw
       THEN /\ msg.fmt = "Overwrote the old topic"
            /\ \E e \in db :
                 /\ OnlyOldBecame(e)
                 /\ Written(e)
                 /\ NList > 1 => e.help_category = Lower(call.lhslist[2])
                 /\ NList > 2 => e.locks =
                      Join(SubSeq(call.lhslist, 3, NList), <<",">>)
       ELSE /\ db = prevdb
            /\ msg.fmt = "Topic already exists"

C4_Witness ==
  /\ TopicGiven /\ Sw = {} /\ Matched /\ HasText
  /\ call.rhs # OldE.entrytext
  /\ Cardinality(db) = 2
  /\ msg.fmt = "Topic already exists"

\* C5: @sethelp/delete (without append, merge or extend) on a topic that
\* matches an existing entry removes that entry and leaves every other entry
\* unchanged, with or without a right-hand side; when no entry matches, the
\* database is unchanged and "Could not find topic" is sent.
C5_DeleteRemovesTopic ==
  (TopicGiven /\ "delete" \in Sw /\ NoAppendSwitch)
    => IF Matched
       THEN /\ old \subseteq prevdb
            /\ db = prevdb \ old
            /\ OldE \notin db
            /\ msg.fmt = "Deleted help entry"
       ELSE /\ db = prevdb
            /\ msg.fmt = "Could not find topic"

C5_Witness ==
  /\ TopicGiven /\ Sw = {"delete"} /\ Matched /\ ~call.hasrhs
  /\ Cardinality(prevdb) = 2
  /\ Cardinality(db) = 1

\* C6 (as claimed): an @sethelp whose topic name is empty sends "You have to
\* define a topic!" or the usage text and creates, modifies or deletes no
\* entry; so no help entry ever has an empty key.
C6_TopicHasToBeDefined ==
  /\ (Ran /\ TopicName = <<>>)
       => (db = prevdb /\ msg.fmt \in {"Usage", "You have to define a topic!"})
  /\ \A e \in db : e.key # <<>>

\* the `help` call that has just run
Asked == call.cmd = "help"
Query == Lower(Strip(call.args))
ListQueries == {<<>>, <<"l", "i", "s", "t">>, <<"a", "l", "l">>}
\* the commands of the caller's cmdset (doublets removed) that are documented
\* and open to the caller, and the topics the caller may view
ShownCmds ==
  {c \in Range(MakeUnique(call.cmdset)) : c.auto_help /\ c.access}
ShownTopics == {t \in db : Access(t)}
\* a section lists exactly the keys of `items`, each under its own category
ListsExactly(section, items) ==
  /\ \A x \in items :
       \E s \in section : s[1] = Title(x.help_category) /\ x.key \in s[2]
  /\ \A s \in section : \A k \in s[2] :
       \E x \in items : x.key = k /\ Title(x.help_category) = s[1]

\* C7: help without argument, "help list" and "help all" give the same
\* output, a list by category of exactly the keys of the documented commands
\* the caller may use and of the database topics the caller may view, each
\* under its own category; no single entry is looked up.
C7_ListAll ==
  (Asked /\ Query \in ListQueries)
    => /\ msg.fmt = "list"
       /\ msg.title = <<>> /\ msg.text = <<>>
       /\ ListsExactly(msg.cmds, ShownCmds)
       /\ ListsExactly(msg.topics, ShownTopics)

C7_Witness ==
  /\ Asked /\ call.args = <<" ", "A", "l", "l">>
  /\ \E c \in Range(call.cmdset) : ~c.auto_help
  /\ \E c \in Range(call.cmdset) : ~c.access
  /\ ShownTopics # {} /\ ShownTopics # db
  /\ msg.cmds # {} /\ msg.topics # {}

\* what the fixed order of the lookup finds for the query
NamesOf(c) == {Lower(n) : n \in {c.key} \cup Range(c.aliases)}
CmdHits == {c \in ShownCmds : Query \in NamesOf(c)}
KeyHits == {t \in db : Lower(t.key) = Query}
TopicHits == IF KeyHits # {} THEN KeyHits ELSE {t \in db : Query \in t.aliases}
CategoryNames ==
  {Lower(x.help_category) : x \in ShownCmds \cup ShownTopics}
KeysIn(items, category) ==
  {x.key : x \in {y \in items : y.help_category = category}}

\* C8: for any other query exactly one message is sent, found in a fixed
\* order: the help of the one command that equals the query by key or alias;
\* else the one database topic that matches it exactly; else the listing of
\* the category of that name; else "No help entry found".
C8_LookupOrder ==
  (Asked /\ Query \notin ListQueries)
    => IF Cardinality(CmdHits) = 1
       THEN \E c \in CmdHits :
              /\ msg.fmt = "entry" /\ msg.title = c.key
              /\ msg.text = RStrip(c.doc) /\ msg.aliases = Range(c.aliases)
       ELSE IF Cardinality(TopicHits) = 1
       THEN \E t \in TopicHits :
              /\ msg.fmt = "entry" /\ msg.title = t.key
              /\ msg.text = t.entrytext /\ msg.aliases = t.aliases
       ELSE IF Query \in CategoryNames
       THEN /\ msg.fmt = "list"
            /\ msg.cmds \in {{}, {<<Title(Query), KeysIn(ShownCmds, Query)>>}}
            /\ msg.topics \in {{}, {<<Title(Query), KeysIn(ShownTopics, Query)>>}}
            /\ msg.cmds = {} <=> KeysIn(ShownCmds, Query) = {}
            /\ msg.topics = {} <=> KeysIn(ShownTopics, Query) = {}
       ELSE /\ msg.fmt = "entry" /\ msg.title = <<>>
            /\ msg.text = <<"No help entry found for '">> \o Query \o <<"'">>

\* a command and a topic of the same name: the command is shown
C8_Witness ==
  /\ Asked /\ Query = <<"a">>
  /\ Cardinality(CmdHits) = 1
  /\ Cardinality(TopicHits) = 1
  /\ Query \in CategoryNames
  /\ msg.text = <<"d">>
====
